---------------------------- MODULE Spec2Model ----------------------------
(***************************************************************************)
(* Concurrent skip list with three synchronisation strategies (coarse,     *)
(* fine, lockfree): a model of src/src/skiplist_{coarse,fine,lockfree}.c.  *)
(*                                                                         *)
(* One step of the model is one access to shared memory (an atomic load,   *)
(* store, CAS, fetch_add, a lock acquisition), together with the thread-   *)
(* local computation that follows it.  The coarse variant's loops run      *)
(* entirely under the global mutex and are taken as one step each.         *)
(***************************************************************************)
EXTENDS Integers, Naturals, Sequences, FiniteSets, TLC

(* ------------------------------ bounds -------------------------------- *)
\* The workload has the shape of tests/correctness_test.c: the main thread
\* (thread 1) calls operations alone, then a parallel region runs in which
\* every thread calls operations, then the main thread calls operations alone.
NumThreads == 2     \* threads of the parallel region
PreOps == 2         \* calls of the main thread before the parallel region
ParOps == 1         \* calls of each thread in the parallel region
PostOps == 1        \* calls of the main thread after the parallel region
MaxKey == 2         \* keys are 1..MaxKey
SeqOps == 4         \* calls of the single-threaded workload
MaxTop == 1         \* greatest level random_level() draws in a run

(* --------------------------- program constants ------------------------ *)
\* skiplist_common.h:10 has 16; the model keeps the level structure with 2
\* (lockfree then works on levels 0..1, coarse and fine on levels 0..2).
MAX_LEVEL == 2
INT_MIN == 0                    \* key of the head sentinel
INT_MAX == MaxKey + 1           \* key of the tail sentinel
NULL == 0
head == 1                       \* list->head
tail == 2                       \* list->tail

Threads == 1..NumThreads
Keys == (INT_MIN + 1)..(INT_MAX - 1)
AllKeys == INT_MIN..INT_MAX
Levels == 0..MAX_LEVEL
\* random_level() returns a level of 0..MAX_LEVEL; the runs draw 0..MaxTop.
RandomLevels == 0..(IF MaxTop < MAX_LEVEL THEN MaxTop ELSE MAX_LEVEL)
MaxNodes == PreOps + NumThreads * ParOps + PostOps + SeqOps
Nodes == 1..(MaxNodes + 2)
Impls == {"coarse", "fine", "lockfree"}
Ops == {"insert", "delete", "contains"}

VARIABLES
  impl,      \* which variant the list was created by
  node,      \* the heap: node id -> Node (skiplist_common.h:22-41)
  size,      \* list->size
  glock,     \* list->lock, the coarse variant's mutex: holder or 0
  epoch,     \* em.global_epoch
  readers,   \* em.active_readers[3]
  limbo,     \* em.limbo[3], each a sequence of retired nodes (newest first)
  pc,        \* per thread: position in the running call; "ret": about to
             \* return loc.rv; "idle": between calls
  op,        \* per thread: the operation called last
  key,       \* per thread: its key argument
  phase,     \* "pre", "par" (the parallel region) or "post"
  seqLeft,   \* calls the main thread may still make in this sequential phase
  left,      \* per thread: calls it may still make in the parallel region
  loc,       \* per thread: local variables of the running call
  ref,       \* history: the reference set of a single-threaded run
  th,        \* history, per thread
  kh,        \* history, per key
  delCnt,    \* history, per node: deletes that returned true for it
  eh,        \* history of the epoch manager: ret[n], the global epoch
             \* retire_node read for node n; ent[t], the global epoch
             \* epoch_enter read for the section thread t is in (-1: none)
  net        \* history: inserts that returned true minus deletes that did

vars == <<impl, node, size, glock, epoch, readers, limbo, pc, op, key, phase,
          seqLeft, left, loc, ref, th, kh, delCnt, eh, net>>

(* ------------------------------ the heap ------------------------------ *)
\* A next word: pointer and mark bit (skiplist_lockfree.c:11-14).
W(p, m) == [p |-> p, m |-> m]
IS_MARKED(w) == w.m
GET_UNMARKED(w) == w.p
GET_MARKED(w) == W(w.p, TRUE)

\* create_node / alloc_node: every next[i] NULL, marked and fully_linked false.
NewNode(k, top) ==
  [key |-> k, top |-> top, next |-> [l \in Levels |-> W(NULL, FALSE)],
   marked |-> FALSE, full |-> FALSE, lock |-> 0, st |-> "alloc"]

NoNode == [NewNode(0, 0) EXCEPT !.st = "unalloc"]

\* malloc: the lowest address not in use (a freed block is handed out again).
CanAlloc(nd) == \E n \in Nodes : nd[n].st # "alloc"
FreeId(nd) == CHOOSE n \in Nodes : nd[n].st # "alloc" /\
                 \A m \in Nodes : nd[m].st # "alloc" => n <= m

\* free: the block is released; its stale contents stay readable.
Free(nd, n) == [nd EXCEPT ![n].st = "freed"]

\* The mark of a node: the low bit of next[0] (lockfree) or the marked flag (fine).
NodeMarked(nd, n) == nd[n].next[0].m \/ nd[n].marked

\* Nodes met by following next[l] from head, tail excluded, at most fuel hops.
RECURSIVE Chain(_, _, _, _)
Chain(nd, l, n, fuel) ==
  IF n = NULL \/ n = tail \/ fuel = 0 THEN {}
  ELSE {n} \cup Chain(nd, l, nd[n].next[l].p, fuel - 1)

Reach(nd, l) == Chain(nd, l, nd[head].next[l].p, MaxNodes + 2)

\* Live nodes: unmarked and reachable from head at level 0.
LiveNodesOf(nd) == {n \in Reach(nd, 0) : ~NodeMarked(nd, n)}
LiveKeysOf(nd) == {nd[n].key : n \in LiveNodesOf(nd)}
LiveNodes == LiveNodesOf(node)
LiveKeys == LiveKeysOf(node)

(* --------------------------- thread locals ---------------------------- *)
NoLevels == [l \in Levels |-> NULL]
LocInit ==
  [pred |-> NULL, curr |-> NULL, succ |-> W(NULL, FALSE), lvl |-> 0,
   preds |-> NoLevels, succs |-> NoLevels, newNode |-> NULL, victim |-> NULL,
   top |-> 0, i |-> 0, e |-> 0, cg |-> 0, cont |-> "", fres |-> FALSE, rv |-> FALSE,
   glist |-> <<>>]

Active(u) == pc[u] # "idle"
Running(u, o, k) == Active(u) /\ op[u] = o /\ key[u] = k

(* ------------------------------ history ------------------------------- *)
ThInit == [expect |-> FALSE, clean |-> FALSE, must |-> FALSE, cleanD |-> FALSE,
           mustNot |-> FALSE, sawLive |-> FALSE]
EhInit == [ret |-> [n \in Nodes |-> -1], ent |-> [t \in Threads |-> -1]]
KhInit == [insInv |-> 0, insOK |-> 0, insFailed |-> FALSE, delInv |-> FALSE,
           stable |-> FALSE, gone |-> FALSE, armed |-> FALSE, wins |-> 0,
           dRet |-> FALSE]

\* What a mathematical set answers, and how it changes.
RefResult(o, k, s) == IF o = "insert" THEN k \notin s ELSE k \in s
RefApply(o, k, s) ==
  IF o = "insert" THEN s \cup {k} ELSE IF o = "delete" THEN s \ {k} ELSE s

\* The run has been single-threaded so far.
Solo == phase = "pre"

\* Every running insert or contains records whether its key was live at some
\* instant so far.
SawUpd(h, nd) ==
  [u \in Threads |->
     IF Active(u) /\ op[u] # "delete" /\ key[u] \in LiveKeysOf(nd)
     THEN [h[u] EXCEPT !.sawLive = TRUE] ELSE h[u]]


(* ------------------------------- create ------------------------------- *)
\* skiplist_create_{coarse,fine}: head.next[i] = tail for i in 0..MAX_LEVEL;
\* skiplist_create_lockfree: for i in 0..MAX_LEVEL-1 (next[MAX_LEVEL] stays NULL).
\* skiplist_create_coarse also sets fully_linked on both sentinels.
CreateList(im) ==
  [n \in Nodes |->
     IF n = head
     THEN [NewNode(INT_MIN, MAX_LEVEL) EXCEPT
             !.next = [l \in Levels |->
                         IF im = "lockfree" /\ l = MAX_LEVEL
                         THEN W(NULL, FALSE) ELSE W(tail, FALSE)],
             !.full = (im = "coarse")]
     ELSE IF n = tail
     THEN [NewNode(INT_MAX, MAX_LEVEL) EXCEPT !.full = (im = "coarse")]
     ELSE NoNode]

InitWith(ims, seq, budget) ==
  /\ impl \in ims
  /\ node = CreateList(impl)
  /\ size = 0
  /\ glock = 0
  /\ epoch = 0
  /\ readers = [x \in 0..2 |-> 0]
  /\ limbo = [x \in 0..2 |-> <<>>]
  /\ pc = [t \in Threads |-> "idle"]
  /\ op = [t \in Threads |-> "contains"]
  /\ key = [t \in Threads |-> INT_MIN + 1]
  /\ phase = "pre"
  /\ seqLeft = seq
  /\ left = budget
  /\ loc = [t \in Threads |-> LocInit]
  /\ ref = {}
  /\ th = [t \in Threads |-> ThInit]
  /\ kh = [k \in AllKeys |-> KhInit]
  /\ delCnt = [n \in Nodes |-> 0]
  /\ eh = EhInit
  /\ net = 0

(* --------------------------- steps and returns ------------------------ *)
\* The epoch history after a step of thread t that leaves the heap nd2:
\* retire_node reads the global epoch at line 47, epoch_enter at line 37, and
\* epoch_exit (line 43) ends the section.
EhStep(t, nd2) ==
  [ret |-> [n \in Nodes |->
              IF node[n].st # "alloc" /\ nd2[n].st = "alloc" THEN -1
              ELSE IF pc[t] = "rt_epoch" /\ n = loc[t].victim THEN epoch
              ELSE eh.ret[n]],
   ent |-> [u \in Threads |->
              IF u # t THEN eh.ent[u]
              ELSE IF pc[t] = "ee_load" THEN epoch
              ELSE IF pc[t] \in {"fi_exit", "fi_reexit", "fd_exit", "fd_reexit",
                                 "fc_exit"} THEN -1
              ELSE eh.ent[u]]]

\* A step of thread t that goes on to label lbl with locals l2 and heap nd2;
\* won says that the step completes a successful delete of loc[t].victim.
StepD(t, lbl, l2, nd2, won) ==
  /\ pc' = [pc EXCEPT ![t] = lbl]
  /\ loc' = [loc EXCEPT ![t] = l2]
  /\ node' = nd2
  /\ th' = SawUpd(th, nd2)
  /\ delCnt' = [n \in Nodes |->
                  IF node[n].st # "alloc" /\ nd2[n].st = "alloc" THEN 0
                  ELSE IF won /\ n = loc[t].victim THEN delCnt[n] + 1
                  ELSE delCnt[n]]
  /\ eh' = EhStep(t, nd2)
  /\ UNCHANGED <<impl, op, key, phase, seqLeft, left, ref, kh, net>>

Step(t, lbl, l2, nd2) == StepD(t, lbl, l2, nd2, FALSE)

\* The per-key history when thread t returns rv.
KhRet(t, rv) ==
  LET k == key[t]
      h == kh[k]
      quiet == \A u \in Threads \ {t} :
                 ~(Active(u) /\ key[u] = k /\ op[u] \in {"insert", "delete"})
  IN [kh EXCEPT ![k] =
        IF op[t] = "insert" /\ rv
          THEN [h EXCEPT !.insOK = IF h.delInv THEN 0 ELSE @ + 1,
                         !.stable = th[t].clean,
                         !.armed = (th[t].clean /\ quiet), !.wins = 0, !.dRet = FALSE]
        ELSE IF op[t] = "insert"
          THEN [h EXCEPT !.insFailed = ~h.delInv]
        ELSE IF op[t] = "delete" /\ rv
          THEN [h EXCEPT !.gone = th[t].cleanD,
                         !.wins = IF h.armed THEN @ + 1 ELSE @,
                         !.dRet = h.armed]
        ELSE IF op[t] = "delete"
          THEN [h EXCEPT !.dRet = h.armed]
        ELSE h]

\* Thread t's call is about to return rv, leaving the heap nd2.
Finish(t, rv, nd2) ==
  StepD(t, "ret", [LocInit EXCEPT !.rv = rv], nd2, op[t] = "delete" /\ rv)

\* The call returns to the caller.
Return(t) ==
  /\ pc[t] = "ret"
  /\ pc' = [pc EXCEPT ![t] = "idle"]
  /\ loc' = [loc EXCEPT ![t] = LocInit]
  /\ op' = [op EXCEPT ![t] = "contains"]
  /\ key' = [key EXCEPT ![t] = INT_MIN + 1]
  /\ th' = [th EXCEPT ![t] = ThInit]
  /\ kh' = KhRet(t, loc[t].rv)
  /\ net' = IF op[t] = "insert" /\ loc[t].rv THEN net + 1
            ELSE IF op[t] = "delete" /\ loc[t].rv THEN net - 1 ELSE net
  /\ UNCHANGED <<impl, node, size, glock, epoch, readers, limbo, phase, seqLeft,
                 left, ref, delCnt, eh>>

\* Step or return, by a record [pc, l] / [pc |-> "return", rv].
Go(t, r, nd2) ==
  IF r.pc = "return" THEN Finish(t, r.rv, nd2) ELSE Step(t, r.pc, r.l, nd2)

To(lbl, l) == [pc |-> lbl, l |-> l]
Ret(rv) == [pc |-> "return", rv |-> rv]

(* ============================= lockfree =============================== *)

\* A plain store where the code has a compare-and-swap: it never fails.
CasOk_blind(actual, expected) == TRUE

\* atomic_compare_exchange_strong(&word, &expected, desired) succeeds iff equal.
CasOk(actual, expected) == actual = expected

\* find (skiplist_lockfree.c:48-104), entered at "retry:" with return label cont.
CallFind(l, cont) ==
  To("f_first", [l EXCEPT !.pred = head, !.curr = NULL, !.succ = W(NULL, FALSE),
                          !.lvl = MAX_LEVEL - 1, !.cont = cont])


\* A result test that accepts the first key not below k.
FindFound_ge(nd, s0, k) == s0 # NULL /\ nd[s0].key >= k

\* find's result, line 102.
FindFound(nd, s0, k) == s0 # NULL /\ nd[s0].key = k

\* Lines 96-102: store the path of this level; go one level down or return.
FindLevelDone(t, l) ==
  LET l2 == [l EXCEPT !.preds[l.lvl] = l.pred, !.succs[l.lvl] = l.curr]
  IN IF l.lvl = 0
     THEN To(l.cont, [l2 EXCEPT !.fres = FindFound(node, l2.succs[0], key[t]),
                                !.pred = NULL, !.curr = NULL,
                                !.succ = W(NULL, FALSE), !.cont = ""])
     ELSE To("f_first", [l2 EXCEPT !.lvl = l.lvl - 1, !.curr = NULL,
                                   !.succ = W(NULL, FALSE)])

\* Lines 66, 85-93, after succ = curr->next[level] was loaded into l.succ.
FindAfterLoad(t, l) ==
  IF IS_MARKED(l.succ) THEN To("f_cas", l)
  ELSE IF node[l.curr].key < key[t]
    THEN To("f_curr", [l EXCEPT !.pred = l.curr, !.curr = GET_UNMARKED(l.succ),
                                !.succ = W(NULL, FALSE)])
  ELSE FindLevelDone(t, l)

\* Line 57: curr = GET_UNMARKED(pred->next[level]).
f_first(t) ==
  /\ pc[t] = "f_first"
  /\ LET l == loc[t]
     IN Step(t, "f_curr",
             [l EXCEPT !.curr = GET_UNMARKED(node[l.pred].next[l.lvl])], node)
  /\ UNCHANGED <<size, glock, epoch, readers, limbo>>

\* Lines 61-63 and 81-82: NULL check, then succ = curr->next[level].
f_curr(t) ==
  /\ pc[t] = "f_curr"
  /\ LET l == loc[t]
     IN IF l.curr = NULL
        THEN Go(t, FindLevelDone(t, l), node)
        ELSE Go(t, FindAfterLoad(t, [l EXCEPT !.succ = node[l.curr].next[l.lvl]]), node)
  /\ UNCHANGED <<size, glock, epoch, readers, limbo>>

\* Lines 68-80: the helping CAS that swings pred->next[level] over curr.
f_cas(t) ==
  /\ pc[t] = "f_cas"
  /\ LET l == loc[t]
         us == GET_UNMARKED(l.succ)
     IN IF CasOk(node[l.pred].next[l.lvl], W(l.curr, FALSE))
        THEN Go(t, To("f_curr", [l EXCEPT !.curr = us, !.succ = W(NULL, FALSE)]),
                [node EXCEPT ![l.pred].next[l.lvl] = W(us, FALSE)])
        ELSE Go(t, CallFind(l, l.cont), node)
  /\ UNCHANGED <<size, glock, epoch, readers, limbo>>

\* skiplist_insert_lockfree, lines 136-150: duplicate check, random_level,
\* alloc_node, newNode->next[i] = succs[i].
lf_i_found(t) ==
  /\ pc[t] = "i_found"
  /\ LET l == loc[t]
     IN IF l.fres
        THEN Finish(t, FALSE, node)
        ELSE \E rl \in RandomLevels :
               LET top == IF rl >= MAX_LEVEL THEN MAX_LEVEL - 1 ELSE rl
                   n == FreeId(node)
               IN /\ CanAlloc(node)
                  /\ Step(t, "i_cas0", [l EXCEPT !.newNode = n, !.top = top],
                          [node EXCEPT ![n] =
                             [NewNode(key[t], top) EXCEPT
                                !.next = [i \in Levels |->
                                            IF i <= top THEN W(l.succs[i], FALSE)
                                            ELSE W(NULL, FALSE)]]])
  /\ UNCHANGED <<size, glock, epoch, readers, limbo>>

\* Lines 153-161: the publishing CAS at level 0; on failure free and retry.
lf_i_cas0(t) ==
  /\ pc[t] = "i_cas0"
  /\ LET l == loc[t]
     IN IF CasOk(node[l.preds[0]].next[0], W(l.succs[0], FALSE))
        THEN Step(t, "i_size", l,
                  [node EXCEPT ![l.preds[0]].next[0] = W(l.newNode, FALSE)])
        ELSE Go(t, CallFind([l EXCEPT !.newNode = NULL, !.top = 0], "i_found"),
                Free(node, l.newNode))
  /\ UNCHANGED <<size, glock, epoch, readers, limbo>>

\* Line 164: atomic_fetch_add(&list->size, 1); then the tower loop starts at 1.
lf_i_size(t) ==
  /\ pc[t] = "i_size"
  /\ size' = size + 1
  /\ LET l == loc[t]
     IN Step(t, IF l.top >= 1 THEN "i_casU" ELSE "i_full", [l EXCEPT !.i = 1], node)
  /\ UNCHANGED <<glock, epoch, readers, limbo>>

\* Lines 169-179: link level i by CAS; on failure re-run find.
lf_i_casU(t) ==
  /\ pc[t] = "i_casU"
  /\ LET l == loc[t]
     IN IF CasOk(node[l.preds[l.i]].next[l.i], W(l.succs[l.i], FALSE))
        THEN Step(t, IF l.i + 1 <= l.top THEN "i_casU" ELSE "i_full",
                  [l EXCEPT !.i = l.i + 1],
                  [node EXCEPT ![l.preds[l.i]].next[l.i] = W(l.newNode, FALSE)])
        ELSE Go(t, CallFind(l, "i_chk"), node)
  /\ UNCHANGED <<size, glock, epoch, readers, limbo>>

\* Lines 183-186: stop building when newNode->next[0] is marked.
lf_i_chk(t) ==
  /\ pc[t] = "i_chk"
  /\ LET l == loc[t]
     IN IF IS_MARKED(node[l.newNode].next[0])
        THEN Finish(t, TRUE, node)
        ELSE Step(t, "i_reset", l, node)
  /\ UNCHANGED <<size, glock, epoch, readers, limbo>>

\* Line 189: atomic_store(&newNode->next[i], succs[i]).
lf_i_reset(t) ==
  /\ pc[t] = "i_reset"
  /\ LET l == loc[t]
     IN Step(t, "i_casU", l,
             [node EXCEPT ![l.newNode].next[l.i] = W(l.succs[l.i], FALSE)])
  /\ UNCHANGED <<size, glock, epoch, readers, limbo>>

\* Lines 193-194: fully_linked = true; return true.
lf_i_full(t) ==
  /\ pc[t] = "i_full"
  /\ Finish(t, TRUE, [node EXCEPT ![loc[t].newNode].full = TRUE])
  /\ UNCHANGED <<size, glock, epoch, readers, limbo>>

\* skiplist_delete_lockfree, lines 205-215: not found, or victim = succs[0].
lf_d_found(t) ==
  /\ pc[t] = "d_found"
  /\ LET l == loc[t]
     IN IF ~l.fres
        THEN Finish(t, FALSE, node)
        ELSE Step(t, "d_load",
                  [l EXCEPT !.victim = l.succs[0], !.i = node[l.succs[0]].top], node)
  /\ UNCHANGED <<size, glock, epoch, readers, limbo>>

\* Lines 216-222: succ = victim->next[i]; already marked?
lf_d_load(t) ==
  /\ pc[t] = "d_load"
  /\ LET l == loc[t]
         w == node[l.victim].next[l.i]
     IN IF IS_MARKED(w)
        THEN IF l.i = 0
             THEN Finish(t, FALSE, node)
             ELSE Step(t, "d_load", [l EXCEPT !.i = l.i - 1], node)
        ELSE Step(t, "d_cas", [l EXCEPT !.succ = w], node)
  /\ UNCHANGED <<size, glock, epoch, readers, limbo>>

\* Lines 224-236: the marking CAS; level 0 failure restarts the delete, upper
\* level failures are ignored; after level 0 the unlinking find is called.
lf_d_cas(t) ==
  /\ pc[t] = "d_cas"
  /\ LET l == loc[t]
         l2 == [l EXCEPT !.succ = W(NULL, FALSE)]
     IN IF CasOk(node[l.victim].next[l.i], l.succ)
        THEN Go(t, IF l.i = 0 THEN CallFind(l2, "d_size")
                   ELSE To("d_load", [l2 EXCEPT !.i = l.i - 1]),
                [node EXCEPT ![l.victim].next[l.i] = GET_MARKED(l.succ)])
        ELSE Go(t, IF l.i = 0
                   THEN CallFind([l2 EXCEPT !.victim = NULL, !.i = 0], "d_found")
                   ELSE To("d_load", [l2 EXCEPT !.i = l.i - 1]),
                node)
  /\ UNCHANGED <<size, glock, epoch, readers, limbo>>

\* A delete that frees its victim before it returns.
lf_d_size_free(t) ==
  /\ pc[t] = "d_size"
  /\ size' = size - 1
  /\ Finish(t, TRUE, Free(node, loc[t].victim))
  /\ UNCHANGED <<glock, epoch, readers, limbo>>

\* Lines 238-239: atomic_fetch_sub(&list->size, 1); return true.
lf_d_size(t) ==
  /\ pc[t] = "d_size"
  /\ size' = size - 1
  /\ Finish(t, TRUE, node)
  /\ UNCHANGED <<glock, epoch, readers, limbo>>

\* skiplist_contains_lockfree, lines 250-274.
ContainsNextLevel(l) ==
  IF l.lvl = 0
  THEN To("c_final", [l EXCEPT !.curr = NULL, !.succ = W(NULL, FALSE)])
  ELSE To("c_first", [l EXCEPT !.lvl = l.lvl - 1, !.curr = NULL,
                               !.succ = W(NULL, FALSE)])

\* Line 251: curr = GET_UNMARKED(pred->next[level]).
lf_c_first(t) ==
  /\ pc[t] = "c_first"
  /\ LET l == loc[t]
     IN Step(t, "c_curr",
             [l EXCEPT !.curr = GET_UNMARKED(node[l.pred].next[l.lvl])], node)
  /\ UNCHANGED <<size, glock, epoch, readers, limbo>>

\* A contains that helps: it swings pred->next[level] over a marked curr.
lf_c_curr_help(t) ==
  /\ pc[t] = "c_curr"
  /\ LET l == loc[t]
         w == node[l.curr].next[l.lvl]
     IN IF l.curr = NULL \/ l.curr = tail
        THEN Go(t, ContainsNextLevel(l), node)
        ELSE IF IS_MARKED(w)
          THEN Go(t, To("c_curr", [l EXCEPT !.curr = GET_UNMARKED(w)]),
                  [node EXCEPT ![l.pred].next[l.lvl] = W(GET_UNMARKED(w), FALSE)])
        ELSE IF node[l.curr].key < key[t]
          THEN Go(t, To("c_curr", [l EXCEPT !.pred = l.curr,
                                            !.curr = GET_UNMARKED(w)]), node)
        ELSE Go(t, ContainsNextLevel(l), node)
  /\ UNCHANGED <<size, glock, epoch, readers, limbo>>

\* Lines 255-271: skip a marked curr without helping, or advance, or stop.
lf_c_curr(t) ==
  /\ pc[t] = "c_curr"
  /\ LET l == loc[t]
         w == node[l.curr].next[l.lvl]
     IN IF l.curr = NULL \/ l.curr = tail
        THEN Go(t, ContainsNextLevel(l), node)
        ELSE IF IS_MARKED(w)
          THEN Go(t, To("c_curr", [l EXCEPT !.curr = GET_UNMARKED(w)]), node)
        ELSE IF node[l.curr].key < key[t]
          THEN Go(t, To("c_curr", [l EXCEPT !.pred = l.curr,
                                            !.curr = GET_UNMARKED(w)]), node)
        ELSE Go(t, ContainsNextLevel(l), node)
  /\ UNCHANGED <<size, glock, epoch, readers, limbo>>

\* Lines 277, 283-284: curr = GET_UNMARKED(pred->next[0]); tail and key tests.
lf_c_final(t) ==
  /\ pc[t] = "c_final"
  /\ LET l == loc[t]
         c == GET_UNMARKED(node[l.pred].next[0])
     IN IF c = NULL THEN Step(t, "crash", l, node)
        ELSE IF c = tail \/ node[c].key # key[t]
        THEN Finish(t, FALSE, node)
        ELSE Step(t, "c_mark", [l EXCEPT !.curr = c], node)
  /\ UNCHANGED <<size, glock, epoch, readers, limbo>>

\* Line 285: !IS_MARKED(curr->next[0]).
lf_c_mark(t) ==
  /\ pc[t] = "c_mark"
  /\ Finish(t, ~IS_MARKED(node[loc[t].curr].next[0]), node)
  /\ UNCHANGED <<size, glock, epoch, readers, limbo>>

\* Entry of a lockfree call.
LFEntry(o) ==
  IF o = "insert" THEN CallFind(LocInit, "i_found")
  ELSE IF o = "delete" THEN CallFind(LocInit, "d_found")
  ELSE To("c_first", [LocInit EXCEPT !.pred = head, !.lvl = MAX_LEVEL - 1])

NextLF(t) ==
  \/ f_first(t) \/ f_curr(t) \/ f_cas(t)
  \/ lf_i_found(t) \/ lf_i_cas0(t) \/ lf_i_size(t) \/ lf_i_casU(t)
  \/ lf_i_chk(t) \/ lf_i_reset(t) \/ lf_i_full(t)
  \/ lf_d_found(t) \/ lf_d_load(t) \/ lf_d_cas(t) \/ lf_d_size(t)
  \/ lf_c_first(t) \/ lf_c_curr(t) \/ lf_c_final(t) \/ lf_c_mark(t)

(* ============================== coarse ================================ *)
\* The walk of one level: while (curr != tail && curr->key < key) pred = curr.
RECURSIVE CoAdvance(_, _, _, _)
CoAdvance(nd, pred, l, k) ==
  LET curr == nd[pred].next[l].p
  IN IF curr # NULL /\ curr # tail /\ nd[curr].key < k
     THEN CoAdvance(nd, curr, l, k) ELSE pred

\* The search loop from list->maxLevel down to 0: preds[level] for every level.
RECURSIVE CoPreds(_, _, _, _, _)
CoPreds(nd, pred, l, k, acc) ==
  LET p == CoAdvance(nd, pred, l, k)
      acc2 == [acc EXCEPT ![l] = p]
  IN IF l = 0 THEN acc2 ELSE CoPreds(nd, p, l - 1, k, acc2)

CoSearch(nd, k) == CoPreds(nd, head, MAX_LEVEL, k, NoLevels)

\* A level-0 test that accepts the first key not below k.
CoFound_ge(nd, p0, k) ==
  LET curr == nd[p0].next[0].p IN curr # tail /\ nd[curr].key >= k

\* The level-0 test: curr != list->tail && curr->key == key.
CoFound(nd, p0, k) ==
  LET curr == nd[p0].next[0].p IN curr # tail /\ nd[curr].key = k

\* A lock that never makes its caller wait.
CanSetLock_any(g) == TRUE

\* omp_set_lock returns only once the lock is not held.
CanSetLock(g) == g = 0

\* omp_set_lock(&list->lock).
co_lock(t) ==
  /\ pc[t] = "co_lock"
  /\ CanSetLock(glock)
  /\ glock' = t
  /\ Step(t, "co_search", loc[t], node)
  /\ UNCHANGED <<size, epoch, readers, limbo>>

\* The search of insert (51-72), delete (95-121) and contains (143-161), under
\* the mutex; the paths that find nothing to do unlock and return.
co_search(t) ==
  /\ pc[t] = "co_search"
  /\ glock = t
  /\ LET l == loc[t]
         ps == CoSearch(node, key[t])
         found == CoFound(node, ps[0], key[t])
     IN IF op[t] = "contains"
        THEN glock' = 0 /\ Finish(t, found, node)
        ELSE IF op[t] = "insert"
        THEN IF found
             THEN glock' = 0 /\ Finish(t, FALSE, node)
             ELSE glock' = glock /\ Step(t, "co_link", [l EXCEPT !.preds = ps], node)
        ELSE IF found
             THEN glock' = glock /\
                  Step(t, "co_unlink",
                       [l EXCEPT !.preds = ps, !.victim = node[ps[0]].next[0].p], node)
             ELSE glock' = 0 /\ Finish(t, FALSE, node)
  /\ UNCHANGED <<size, epoch, readers, limbo>>

\* skiplist_insert_coarse, lines 77-93: random_level, create_node, fully_linked,
\* the link loop, size + 1, unlock, return true.
co_link(t) ==
  /\ pc[t] = "co_link"
  /\ glock = t
  /\ CanAlloc(node)
  /\ \E top \in RandomLevels :
       LET l == loc[t]
           n == FreeId(node)
           fresh == [NewNode(key[t], top) EXCEPT
                       !.full = TRUE,
                       !.next = [i \in Levels |->
                                   IF i <= top THEN node[l.preds[i]].next[i]
                                   ELSE W(NULL, FALSE)]]
       IN Finish(t, TRUE,
                 [m \in Nodes |->
                    IF m = n THEN fresh
                    ELSE [node[m] EXCEPT
                            !.next = [i \in Levels |->
                                        IF i <= top /\ l.preds[i] = m
                                        THEN W(n, FALSE) ELSE node[m].next[i]]]])
  /\ size' = size + 1
  /\ glock' = 0
  /\ UNCHANGED <<epoch, readers, limbo>>

\* An unlink loop that visits level 0 only.
CoUnlinkLevel_low(nd, v, i) == i = 0

\* The levels the unlink loop visits: for (i = 0; i <= victim->topLevel; i++).
CoUnlinkLevel(nd, v, i) == i <= nd[v].top

\* skiplist_delete_coarse, lines 123-130: the unlink loop, size - 1, unlock.
co_unlink(t) ==
  /\ pc[t] = "co_unlink"
  /\ glock = t
  /\ LET l == loc[t]
         v == l.victim
     IN Step(t, "co_free", l,
             [m \in Nodes |->
                [node[m] EXCEPT
                   !.next = [i \in Levels |->
                               IF CoUnlinkLevel(node, v, i) /\ l.preds[i] = m
                               THEN node[v].next[i] ELSE node[m].next[i]]]])
  /\ size' = size - 1
  /\ glock' = 0
  /\ UNCHANGED <<epoch, readers, limbo>>

\* Lines 132-137: free(victim) after the unlock; return true.
co_free(t) ==
  /\ pc[t] = "co_free"
  /\ Finish(t, TRUE, Free(node, loc[t].victim))
  /\ UNCHANGED <<size, glock, epoch, readers, limbo>>

COEntry(o) == To("co_lock", LocInit)

NextCoarse(t) ==
  co_lock(t) \/ co_search(t) \/ co_link(t) \/ co_unlink(t) \/ co_free(t)

(* =============================== fine ================================= *)

\* A validation that forgets to re-read pred->next[level].
validate_link_nonext(nd, pred, succ, level) ==
  /\ ~nd[pred].marked
  /\ ~nd[succ].marked

\* A validation that forgets the mark of pred.
validate_link_nopred(nd, pred, succ, level) ==
  /\ ~nd[succ].marked
  /\ nd[pred].next[level].p = succ

\* validate_link (skiplist_fine.c:141-145).
validate_link(nd, pred, succ, level) ==
  /\ ~nd[pred].marked
  /\ ~nd[succ].marked
  /\ nd[pred].next[level].p = succ

\* epoch_enter is called, then the walk at label walk starts from head at lvl.
CallEnter(l, walk, lvl) ==
  To("ee_load", [l EXCEPT !.cont = walk, !.pred = head, !.curr = NULL, !.lvl = lvl])

\* epoch_enter, line 37: e = global_epoch % 3.
ee_load(t) ==
  /\ pc[t] = "ee_load"
  /\ Step(t, "ee_inc", [loc[t] EXCEPT !.e = epoch % 3], node)
  /\ UNCHANGED <<size, glock, epoch, readers, limbo>>

\* epoch_enter, line 38: active_readers[e] + 1.
ee_inc(t) ==
  /\ pc[t] = "ee_inc"
  /\ readers' = [readers EXCEPT ![loc[t].e] = @ + 1]
  /\ Step(t, loc[t].cont, [loc[t] EXCEPT !.cont = ""], node)
  /\ UNCHANGED <<size, glock, epoch, limbo>>

\* One load of a walk: curr = pred->next[level]; curr->key < key advances.
\* A NULL curr is dereferenced by curr->key: the process crashes.
WalkLoad(l, k) ==
  LET c == node[l.pred].next[l.lvl].p
  IN IF c = NULL THEN [crash |-> TRUE, adv |-> FALSE, l |-> l]
     ELSE IF node[c].key < k
     THEN [crash |-> FALSE, adv |-> TRUE, l |-> [l EXCEPT !.pred = c]]
     ELSE [crash |-> FALSE, adv |-> FALSE, l |-> [l EXCEPT !.curr = c]]

\* find_optimistic (lines 124-135): a load; at the end of a level the path is
\* stored; after level 0 the walk goes on to label done.
OptStep(t, walk, done) ==
  LET r == WalkLoad(loc[t], key[t])
      l == r.l
      l2 == [l EXCEPT !.preds[l.lvl] = l.pred, !.succs[l.lvl] = l.curr]
  IN IF r.crash THEN To("crash", l)
     ELSE IF r.adv THEN To(walk, l)
     ELSE IF l.lvl = 0 THEN To(done, [l2 EXCEPT !.pred = NULL, !.curr = NULL])
     ELSE To(walk, [l2 EXCEPT !.lvl = l.lvl - 1, !.curr = NULL])

\* omp_set_lock(&n->lock) / omp_unset_lock(&n->lock).
Lock(nd, n, t) == [nd EXCEPT ![n].lock = t]
Unlock(nd, n) == [nd EXCEPT ![n].lock = 0]

(* ---- skiplist_insert_fine ---- *)
\* Line 154: find_optimistic.
fi_walk(t) ==
  /\ pc[t] = "fi_walk"
  /\ Go(t, OptStep(t, "fi_walk", "fi_exit"), node)
  /\ UNCHANGED <<size, glock, epoch, readers, limbo>>


\* A duplicate test with the mark test the wrong way round.
InsertSeesKey_marked(nd, s0, k) == nd[s0].key = k /\ nd[s0].marked

\* The duplicate test of line 157.
InsertSeesKey(nd, s0, k) == nd[s0].key = k

\* Lines 155-159: epoch_exit; if (succs[0]->key == key) return false.
fi_exit(t) ==
  /\ pc[t] = "fi_exit"
  /\ readers' = [readers EXCEPT ![loc[t].e] = @ - 1]
  /\ IF InsertSeesKey(node, loc[t].succs[0], key[t])
     THEN Finish(t, FALSE, node)
     ELSE Step(t, "fi_lock0", loc[t], node)
  /\ UNCHANGED <<size, glock, epoch, limbo>>

\* Line 165: omp_set_lock(&preds[0]->lock).
fi_lock0(t) ==
  /\ pc[t] = "fi_lock0"
  /\ node[loc[t].preds[0]].lock = 0
  /\ Step(t, "fi_val0", loc[t], Lock(node, loc[t].preds[0], t))
  /\ UNCHANGED <<size, glock, epoch, readers, limbo>>

\* Lines 167-170: validate level 0; on failure unlock and retry from the search.
fi_val0(t) ==
  /\ pc[t] = "fi_val0"
  /\ LET l == loc[t]
     IN IF validate_link(node, l.preds[0], l.succs[0], 0)
        THEN Step(t, "fi_alloc", l, node)
        ELSE Go(t, CallEnter([l EXCEPT !.preds = NoLevels, !.succs = NoLevels],
                             "fi_walk", MAX_LEVEL),
                Unlock(node, l.preds[0]))
  /\ UNCHANGED <<size, glock, epoch, readers, limbo>>

\* Lines 173-179: random_level, create_node (holding preds[0]->lock),
\* newNode->next[i] = succs[i].
fi_alloc(t) ==
  /\ pc[t] = "fi_alloc"
  /\ CanAlloc(node)
  /\ \E top \in RandomLevels :
       LET l == loc[t]
           n == FreeId(node)
       IN Step(t, "fi_link0", [l EXCEPT !.newNode = n, !.top = top],
               [node EXCEPT ![n] =
                  [NewNode(key[t], top) EXCEPT
                     !.next = [i \in Levels |->
                                 IF i <= top THEN W(l.succs[i], FALSE)
                                 ELSE W(NULL, FALSE)]]])
  /\ UNCHANGED <<size, glock, epoch, readers, limbo>>

\* Lines 182-183: preds[0]->next[0] = newNode; unlock.
fi_link0(t) ==
  /\ pc[t] = "fi_link0"
  /\ LET l == loc[t]
     IN Step(t, "fi_size", l,
             Unlock([node EXCEPT ![l.preds[0]].next[0] = W(l.newNode, FALSE)],
                    l.preds[0]))
  /\ UNCHANGED <<size, glock, epoch, readers, limbo>>

\* Line 185: size + 1; the upper levels start at 1 (line 189), or return true.
fi_size(t) ==
  /\ pc[t] = "fi_size"
  /\ size' = size + 1
  /\ IF loc[t].top >= 1
     THEN Step(t, "fi_lockU", [loc[t] EXCEPT !.i = 1], node)
     ELSE Finish(t, TRUE, node)
  /\ UNCHANGED <<glock, epoch, readers, limbo>>

\* Line 191: omp_set_lock(&preds[i]->lock).
fi_lockU(t) ==
  /\ pc[t] = "fi_lockU"
  /\ node[loc[t].preds[loc[t].i]].lock = 0
  /\ Step(t, "fi_valU", loc[t], Lock(node, loc[t].preds[loc[t].i], t))
  /\ UNCHANGED <<size, glock, epoch, readers, limbo>>

\* Lines 194-197: validate level i; on failure unlock and search this level again.
fi_valU(t) ==
  /\ pc[t] = "fi_valU"
  /\ LET l == loc[t]
     IN IF validate_link(node, l.preds[l.i], l.succs[l.i], l.i)
        THEN Step(t, "fi_setU", l, node)
        ELSE Go(t, CallEnter(l, "fi_rewalk", l.i), Unlock(node, l.preds[l.i]))
  /\ UNCHANGED <<size, glock, epoch, readers, limbo>>

\* Lines 199-206: the walk of level i from head; sets preds[i] and succs[i].
fi_rewalk(t) ==
  /\ pc[t] = "fi_rewalk"
  /\ LET r == WalkLoad(loc[t], key[t])
         l == r.l
     IN IF r.crash THEN Step(t, "crash", l, node)
        ELSE IF r.adv THEN Step(t, "fi_rewalk", l, node)
        ELSE Step(t, "fi_reexit",
                  [l EXCEPT !.preds[l.i] = l.pred, !.succs[l.i] = l.curr,
                            !.pred = NULL, !.curr = NULL], node)
  /\ UNCHANGED <<size, glock, epoch, readers, limbo>>

\* Lines 207-208: epoch_exit; retry the lock.
fi_reexit(t) ==
  /\ pc[t] = "fi_reexit"
  /\ readers' = [readers EXCEPT ![loc[t].e] = @ - 1]
  /\ Step(t, "fi_lockU", loc[t], node)
  /\ UNCHANGED <<size, glock, epoch, limbo>>

\* Line 212: newNode->next[i] = succs[i].
fi_setU(t) ==
  /\ pc[t] = "fi_setU"
  /\ LET l == loc[t]
     IN Step(t, "fi_linkU", l,
             [node EXCEPT ![l.newNode].next[l.i] = W(l.succs[l.i], FALSE)])
  /\ UNCHANGED <<size, glock, epoch, readers, limbo>>

\* Lines 213-219: preds[i]->next[i] = newNode; unlock; next level or return true.
fi_linkU(t) ==
  /\ pc[t] = "fi_linkU"
  /\ LET l == loc[t]
         nd2 == Unlock([node EXCEPT ![l.preds[l.i]].next[l.i] = W(l.newNode, FALSE)],
                       l.preds[l.i])
     IN IF l.i + 1 <= l.top
        THEN Step(t, "fi_lockU", [l EXCEPT !.i = l.i + 1], nd2)
        ELSE Finish(t, TRUE, nd2)
  /\ UNCHANGED <<size, glock, epoch, readers, limbo>>

(* ---- skiplist_delete_fine ---- *)
\* Line 229: find_optimistic.
fd_walk(t) ==
  /\ pc[t] = "fd_walk"
  /\ Go(t, OptStep(t, "fd_walk", "fd_exit"), node)
  /\ UNCHANGED <<size, glock, epoch, readers, limbo>>

\* Lines 230-236: epoch_exit; victim = succs[0]; not the key, or tail: false.
fd_exit(t) ==
  /\ pc[t] = "fd_exit"
  /\ readers' = [readers EXCEPT ![loc[t].e] = @ - 1]
  /\ LET l == loc[t]
         v == l.succs[0]
     IN IF node[v].key # key[t] \/ v = tail
        THEN Finish(t, FALSE, node)
        ELSE Step(t, "fd_lockV", [l EXCEPT !.victim = v], node)
  /\ UNCHANGED <<size, glock, epoch, limbo>>

\* Line 239: omp_set_lock(&victim->lock).
fd_lockV(t) ==
  /\ pc[t] = "fd_lockV"
  /\ node[loc[t].victim].lock = 0
  /\ Step(t, "fd_mark", loc[t], Lock(node, loc[t].victim, t))
  /\ UNCHANGED <<size, glock, epoch, readers, limbo>>

\* Lines 240-246 without the omp_unset_lock of line 247: the victim stays locked
\* while the predecessors are locked.
fd_mark_keep(t) ==
  /\ pc[t] = "fd_mark"
  /\ LET l == loc[t]
         v == l.victim
     IN IF node[v].marked
        THEN Finish(t, FALSE, Unlock(node, v))
        ELSE Step(t, "fd_lockP", [l EXCEPT !.i = node[v].top],
                  [node EXCEPT ![v].marked = TRUE])
  /\ UNCHANGED <<size, glock, epoch, readers, limbo>>

\* Lines 240-251: already marked: unlock, return false; else mark and unlock.
fd_mark(t) ==
  /\ pc[t] = "fd_mark"
  /\ LET l == loc[t]
         v == l.victim
     IN IF node[v].marked
        THEN Finish(t, FALSE, Unlock(node, v))
        ELSE Step(t, "fd_lockP", [l EXCEPT !.i = node[v].top],
                  Unlock([node EXCEPT ![v].marked = TRUE], v))
  /\ UNCHANGED <<size, glock, epoch, readers, limbo>>

\* Line 253: omp_set_lock(&preds[i]->lock).
fd_lockP(t) ==
  /\ pc[t] = "fd_lockP"
  /\ node[loc[t].preds[loc[t].i]].lock = 0
  /\ Step(t, "fd_valP", loc[t], Lock(node, loc[t].preds[loc[t].i], t))
  /\ UNCHANGED <<size, glock, epoch, readers, limbo>>


\* The validation of line 256: pred must still point to victim.
DeleteLinkValid(nd, pred, victim, level) == nd[pred].next[level].p = victim

\* Lines 256-260: validate; on failure unlock and search this level again.
fd_valP(t) ==
  /\ pc[t] = "fd_valP"
  /\ LET l == loc[t]
     IN IF DeleteLinkValid(node, l.preds[l.i], l.victim, l.i)
        THEN Step(t, "fd_ld", l, node)
        ELSE Go(t, CallEnter(l, "fd_rewalk", l.i), Unlock(node, l.preds[l.i]))
  /\ UNCHANGED <<size, glock, epoch, readers, limbo>>

\* Lines 261-264: the walk of level i from head; sets preds[i].
fd_rewalk(t) ==
  /\ pc[t] = "fd_rewalk"
  /\ LET r == WalkLoad(loc[t], key[t])
         l == r.l
     IN IF r.crash THEN Step(t, "crash", l, node)
        ELSE IF r.adv THEN Step(t, "fd_rewalk", l, node)
        ELSE Step(t, "fd_reexit",
                  [l EXCEPT !.preds[l.i] = l.pred, !.pred = NULL, !.curr = NULL], node)
  /\ UNCHANGED <<size, glock, epoch, readers, limbo>>

\* Lines 265-266: epoch_exit; retry the lock.
fd_reexit(t) ==
  /\ pc[t] = "fd_reexit"
  /\ readers' = [readers EXCEPT ![loc[t].e] = @ - 1]
  /\ Step(t, "fd_lockP", loc[t], node)
  /\ UNCHANGED <<size, glock, epoch, limbo>>

\* Line 270, the load: atomic_load(&victim->next[i]).
fd_ld(t) ==
  /\ pc[t] = "fd_ld"
  /\ LET l == loc[t]
     IN Step(t, "fd_st", [l EXCEPT !.succ = node[l.victim].next[l.i]], node)
  /\ UNCHANGED <<size, glock, epoch, readers, limbo>>

\* Lines 270-272, the store: preds[i]->next[i] = that value; unlock; next level.
fd_st(t) ==
  /\ pc[t] = "fd_st"
  /\ LET l == loc[t]
         nd2 == Unlock([node EXCEPT ![l.preds[l.i]].next[l.i] = l.succ], l.preds[l.i])
         l2 == [l EXCEPT !.succ = W(NULL, FALSE)]
     IN IF l.i = 0
        THEN Step(t, "fd_size", [l2 EXCEPT !.preds = NoLevels, !.succs = NoLevels], nd2)
        ELSE Step(t, "fd_lockP", [l2 EXCEPT !.i = l.i - 1], nd2)
  /\ UNCHANGED <<size, glock, epoch, readers, limbo>>

\* Line 276: size - 1.
fd_size(t) ==
  /\ pc[t] = "fd_size"
  /\ size' = size - 1
  /\ Step(t, "rt_epoch", loc[t], node)
  /\ UNCHANGED <<glock, epoch, readers, limbo>>

\* retire_node, line 47: current_epoch = global_epoch % 3.
rt_epoch(t) ==
  /\ pc[t] = "rt_epoch"
  /\ Step(t, "rt_push", [loc[t] EXCEPT !.e = epoch % 3], node)
  /\ UNCHANGED <<size, glock, epoch, readers, limbo>>

\* retire_node, lines 49-57: push the victim on limbo[current_epoch].
rt_push(t) ==
  /\ pc[t] = "rt_push"
  /\ limbo' = [limbo EXCEPT ![loc[t].e] = <<loc[t].victim>> \o @]
  /\ Step(t, "gc_load", loc[t], node)
  /\ UNCHANGED <<size, glock, epoch, readers>>

\* try_gc, line 61: current_global = global_epoch.
gc_load(t) ==
  /\ pc[t] = "gc_load"
  /\ Step(t, "gc_chk", [loc[t] EXCEPT !.cg = epoch], node)
  /\ UNCHANGED <<size, glock, epoch, readers, limbo>>

\* try_gc, line 72: active_readers[(current_global + 2) % 3] == 0.
gc_chk(t) ==
  /\ pc[t] = "gc_chk"
  /\ IF readers[(loc[t].cg + 2) % 3] = 0
     THEN Step(t, "gc_cas", loc[t], node)
     ELSE Finish(t, TRUE, node)
  /\ UNCHANGED <<size, glock, epoch, readers, limbo>>

\* try_gc, line 75: CAS(global_epoch, current_global, current_global + 1).
gc_cas(t) ==
  /\ pc[t] = "gc_cas"
  /\ IF CasOk(epoch, loc[t].cg)
     THEN epoch' = loc[t].cg + 1 /\ Step(t, "gc_xchg", loc[t], node)
     ELSE epoch' = epoch /\ Finish(t, TRUE, node)
  /\ UNCHANGED <<size, glock, readers, limbo>>

\* try_gc, line 78: curr = atomic_exchange(&limbo[check_idx], NULL),
\* check_idx = (current_global % 3 + 1) % 3.
gc_xchg(t) ==
  /\ pc[t] = "gc_xchg"
  /\ LET x == ((loc[t].cg % 3) + 1) % 3
     IN /\ limbo' = [limbo EXCEPT ![x] = <<>>]
        /\ Step(t, "gc_free", [loc[t] EXCEPT !.glist = limbo[x]], node)
  /\ UNCHANGED <<size, glock, epoch, readers>>

\* try_gc, lines 80-86: free every node of the list taken; delete returns true.
gc_free(t) ==
  /\ pc[t] = "gc_free"
  /\ LET g == loc[t].glist
         dead == {g[j] : j \in 1..Len(g)}
     IN Finish(t, TRUE,
               [n \in Nodes |-> IF n \in dead THEN [node[n] EXCEPT !.st = "freed"]
                                ELSE node[n]])
  /\ UNCHANGED <<size, glock, epoch, readers, limbo>>

(* ---- skiplist_contains_fine ---- *)
\* Lines 292-298: the walk; curr of level 0 is what line 300 looks at.
fc_walk(t) ==
  /\ pc[t] = "fc_walk"
  /\ LET r == WalkLoad(loc[t], key[t])
         l == r.l
     IN IF r.crash THEN Step(t, "crash", l, node)
        ELSE IF r.adv THEN Step(t, "fc_walk", l, node)
        ELSE IF l.lvl = 0 THEN Step(t, "fc_mark", [l EXCEPT !.pred = NULL], node)
        ELSE Step(t, "fc_walk", [l EXCEPT !.lvl = l.lvl - 1, !.curr = NULL], node)
  /\ UNCHANGED <<size, glock, epoch, readers, limbo>>


\* A membership test that forgets the mark.
ContainsFound_nomark(nd, curr, k) == nd[curr].key = k

\* Line 300: found = (curr->key == key && !curr->marked).
ContainsFound(nd, curr, k) == nd[curr].key = k /\ ~nd[curr].marked

fc_mark(t) ==
  /\ pc[t] = "fc_mark"
  /\ Step(t, "fc_exit",
          [loc[t] EXCEPT !.fres = ContainsFound(node, loc[t].curr, key[t]),
                         !.curr = NULL], node)
  /\ UNCHANGED <<size, glock, epoch, readers, limbo>>

\* Lines 302-303: epoch_exit; return found.
fc_exit(t) ==
  /\ pc[t] = "fc_exit"
  /\ readers' = [readers EXCEPT ![loc[t].e] = @ - 1]
  /\ Finish(t, loc[t].fres, node)
  /\ UNCHANGED <<size, glock, epoch, limbo>>

FIEntry(o) ==
  IF o = "insert" THEN CallEnter(LocInit, "fi_walk", MAX_LEVEL)
  ELSE IF o = "delete" THEN CallEnter(LocInit, "fd_walk", MAX_LEVEL)
  ELSE CallEnter(LocInit, "fc_walk", MAX_LEVEL)

NextFine(t) ==
  \/ ee_load(t) \/ ee_inc(t)
  \/ fi_walk(t) \/ fi_exit(t) \/ fi_lock0(t) \/ fi_val0(t) \/ fi_alloc(t)
  \/ fi_link0(t) \/ fi_size(t) \/ fi_lockU(t) \/ fi_valU(t) \/ fi_rewalk(t)
  \/ fi_reexit(t) \/ fi_setU(t) \/ fi_linkU(t)
  \/ fd_walk(t) \/ fd_exit(t) \/ fd_lockV(t) \/ fd_mark(t) \/ fd_lockP(t)
  \/ fd_valP(t) \/ fd_rewalk(t) \/ fd_reexit(t) \/ fd_ld(t) \/ fd_st(t)
  \/ fd_size(t) \/ rt_epoch(t) \/ rt_push(t)
  \/ gc_load(t) \/ gc_chk(t) \/ gc_cas(t) \/ gc_xchg(t) \/ gc_free(t)
  \/ fc_walk(t) \/ fc_mark(t) \/ fc_exit(t)

(* ------------------------------ calls --------------------------------- *)
Entry(o) ==
  IF impl = "lockfree" THEN LFEntry(o)
  ELSE IF impl = "fine" THEN FIEntry(o) ELSE COEntry(o)

\* Thread t calls operation o with key k.
InvokeOf(t, ks) ==
  /\ pc[t] = "idle"
  /\ phase # "done"
  /\ IF phase = "par"
     THEN left[t] > 0 /\ left' = [left EXCEPT ![t] = @ - 1] /\ seqLeft' = seqLeft
     ELSE t = 1 /\ seqLeft > 0 /\ seqLeft' = seqLeft - 1 /\ left' = left
  /\ \E o \in Ops, k \in ks :
       LET e == Entry(o)
           others == Threads \ {t}
       IN /\ pc' = [pc EXCEPT ![t] = e.pc]
          /\ loc' = [loc EXCEPT ![t] = e.l]
          /\ op' = [op EXCEPT ![t] = o]
          /\ key' = [key EXCEPT ![t] = k]
          /\ ref' = IF Solo THEN RefApply(o, k, ref) ELSE {}
          /\ th' = [u \in Threads |->
                      IF u = t
                      THEN [expect |-> Solo /\ RefResult(o, k, ref),
                            clean |-> o = "insert" /\
                                      \A v \in others : ~Running(v, "delete", k),
                            must |-> o = "contains" /\ kh[k].stable,
                            cleanD |-> o = "delete" /\
                                       \A v \in others : ~Running(v, "insert", k),
                            mustNot |-> o = "contains" /\ kh[k].gone,
                            sawLive |-> o # "delete" /\ k \in LiveKeys]
                      ELSE IF Active(u) /\ key[u] = k /\ o = "delete"
                      THEN [th[u] EXCEPT !.clean = FALSE, !.must = FALSE]
                      ELSE IF Active(u) /\ key[u] = k /\ o = "insert"
                      THEN [th[u] EXCEPT !.cleanD = FALSE, !.mustNot = FALSE]
                      ELSE th[u]]
          /\ kh' = [kh EXCEPT ![k] =
                      IF o = "delete"
                      THEN [@ EXCEPT !.delInv = TRUE, !.stable = FALSE,
                                     !.insOK = 0, !.insFailed = FALSE]
                      ELSE IF o = "insert"
                      THEN [@ EXCEPT !.insInv = IF @ >= 2 THEN 2 ELSE @ + 1,
                                     !.gone = FALSE, !.armed = FALSE,
                                     !.wins = 0, !.dRet = FALSE]
                      ELSE @]
  /\ UNCHANGED <<impl, node, size, glock, epoch, readers, limbo, phase, delCnt, eh, net>>

\* A call with a key strictly between the sentinel keys.
Invoke(t) == InvokeOf(t, Keys)

\* A call with any int key, INT_MIN and INT_MAX included.
InvokeAny(t) == InvokeOf(t, AllKeys)

Quiescent == \A t \in Threads : pc[t] = "idle"

\* The parallel region starts (#pragma omp parallel).
Fork ==
  /\ phase = "pre"
  /\ Quiescent
  /\ \E t \in Threads : left[t] > 0
  /\ phase' = "par"
  /\ seqLeft' = PostOps
  /\ ref' = {}
  /\ UNCHANGED <<impl, node, size, glock, epoch, readers, limbo, pc, op, key, left,
                 loc, th, kh, delCnt, eh, net>>

\* The parallel region ends: every thread has come back.
Join ==
  /\ phase = "par"
  /\ Quiescent
  /\ phase' = "post"
  /\ left' = [t \in Threads |-> 0]
  /\ UNCHANGED <<impl, node, size, glock, epoch, readers, limbo, pc, op, key,
                 seqLeft, loc, ref, th, kh, delCnt, eh, net>>

Budget == [t \in Threads |-> ParOps]
NoBudget == [t \in Threads |-> 0]

(* ------------------------------ destroy ------------------------------- *)
\* The nodes the loop of destroy frees, in order: curr = list->head;
\* while (curr) { next = curr->next[0] (mark bit cleared); free(curr); }.
RECURSIVE DestroyWalk(_, _, _)
DestroyWalk(nd, n, fuel) ==
  IF n = NULL \/ fuel = 0 THEN <<>>
  ELSE <<n>> \o DestroyWalk(nd, nd[n].next[0].p, fuel - 1)

\* skiplist_destroy_fine frees the nodes of the three limbo lists first.
DestroyLimbo == IF impl = "fine" THEN limbo[0] \o limbo[1] \o limbo[2] ELSE <<>>

\* Every free() call of destroy, in order.
DestroyFrees == DestroyLimbo \o DestroyWalk(node, head, MaxNodes + 3)

\* The state of a block after free() was called on it times more times:
\* "freed2" is a block freed twice.
AfterFrees(st, times) ==
  IF times = 0 THEN st
  ELSE IF st = "alloc" /\ times = 1 THEN "freed"
  ELSE "freed2"

\* ops->destroy(list), called by the main thread when no call is running
\* (correctness_test.c:35, 61, 83, 111).
Destroy ==
  /\ Quiescent
  /\ phase \in {"pre", "post"}
  /\ phase' = "done"
  /\ LET fs == DestroyFrees
     IN node' = [n \in Nodes |->
                  [node[n] EXCEPT !.st =
                     AfterFrees(@, Cardinality({j \in 1..Len(fs) : fs[j] = n}))]]
  /\ UNCHANGED <<impl, size, glock, epoch, readers, limbo, pc, op, key, seqLeft,
                 left, loc, ref, th, kh, delCnt, eh, net>>

\* The concurrent workload, on a list of any variant.
Init == InitWith(Impls, PreOps, Budget)
Next ==
  \/ \E t \in Threads : Invoke(t) \/ Return(t) \/ NextLF(t) \/ NextCoarse(t)
                           \/ NextFine(t)
  \/ Fork
  \/ Join
  \/ Destroy
Spec == Init /\ [][Next]_vars

\* The single-threaded workload: SeqOps calls of the main thread and no
\* parallel region.  NextSeq has the steps a single thread can take.
InitSeq == InitWith(Impls, SeqOps, NoBudget)
SeqStep(t) ==
    \/ Return(t)
    \/ f_first(t) \/ f_curr(t) \/ f_cas(t)
    \/ lf_i_found(t) \/ lf_i_cas0(t) \/ lf_i_size(t) \/ lf_i_casU(t) \/ lf_i_full(t)
    \/ lf_d_found(t) \/ lf_d_load(t) \/ lf_d_cas(t) \/ lf_d_size(t)
    \/ lf_c_first(t) \/ lf_c_curr(t) \/ lf_c_final(t) \/ lf_c_mark(t)
    \/ NextCoarse(t)
    \/ ee_load(t) \/ ee_inc(t)
    \/ fi_walk(t) \/ fi_exit(t) \/ fi_lock0(t) \/ fi_val0(t) \/ fi_alloc(t)
    \/ fi_link0(t) \/ fi_size(t) \/ fi_lockU(t) \/ fi_valU(t)
    \/ fi_setU(t) \/ fi_linkU(t)
    \/ fd_walk(t) \/ fd_exit(t) \/ fd_lockV(t) \/ fd_mark(t) \/ fd_lockP(t)
    \/ fd_valP(t) \/ fd_ld(t) \/ fd_st(t)
    \/ fd_size(t) \/ rt_epoch(t) \/ rt_push(t)
    \/ gc_load(t) \/ gc_chk(t) \/ gc_cas(t) \/ gc_xchg(t) \/ gc_free(t)
    \/ fc_walk(t) \/ fc_mark(t) \/ fc_exit(t)
NextSeq == \E t \in Threads : Invoke(t) \/ SeqStep(t)
SpecSeq == InitSeq /\ [][NextSeq]_vars

\* The single-threaded workload with keys drawn from all of int.
InitSent == InitWith(Impls, SeqOps, NoBudget)
NextSent == \E t \in Threads : InvokeAny(t) \/ SeqStep(t)
SpecSent == InitSent /\ [][NextSent]_vars

\* The concurrent workload on a lockfree list, with every thread that is
\* inside a call scheduled again and again: the OpenMP threads run on cores of
\* their own and the calls never block.
InitLF == InitWith({"lockfree"}, PreOps, Budget)
NextLFOnly ==
  \/ \E t \in Threads : Invoke(t) \/ Return(t) \/ NextLF(t)
  \/ Fork
  \/ Join
SpecLF ==
  /\ InitLF /\ [][NextLFOnly]_vars
  /\ \A t \in Threads : WF_vars(Return(t) \/ NextLF(t))

\* The concurrent workload on a fine list under weak fairness: a thread whose
\* next step stays enabled (its lock stays free) takes it.
InitFine == InitWith({"fine"}, PreOps, Budget)
NextFineOnly ==
  \/ \E t \in Threads : Invoke(t) \/ Return(t) \/ NextFine(t)
  \/ Fork
  \/ Join
SpecFine ==
  /\ InitFine /\ [][NextFineOnly]_vars
  /\ \A t \in Threads : WF_vars(Return(t) \/ NextFine(t))

(* ============================== claims ================================ *)
Returning(t, o) == pc[t] = "ret" /\ op[t] = o

\* C1: single-threaded, every return value of insert/delete/contains equals
\* that of a reference mathematical set, for each variant.
C1_SetSemantics ==
  \A t \in Threads : (pc[t] = "ret" /\ Solo) => loc[t].rv = th[t].expect

\* C1 witness: the fourth call of a single-threaded run, a delete, returns true.
C1_Witness ==
  /\ impl = "fine" /\ Solo /\ seqLeft = 0 /\ SeqOps >= 4
  /\ Returning(1, "delete") /\ loc[1].rv /\ th[1].expect /\ ref = {2}

\* C2: lockfree, an insert(k) that returned true with no delete(k) since is
\* seen by every contains(k) that starts later, whatever else is in the list.
C2_FreshLockfree ==
  \A t \in Threads :
    (impl = "lockfree" /\ Returning(t, "contains") /\ th[t].must) => loc[t].rv

C5_InsertFalseOnlyIfLive ==
  \A t \in Threads :
    (Returning(t, "insert") /\ ~loc[t].rv) => th[t].sawLive

NoDeletes == \A k \in Keys : ~kh[k].delInv
DistinctInserts == \A k \in Keys : kh[k].insInv <= 1

\* C9: with no delete called and every key inserted at most once, every insert
\* returns true, and after the threads have joined contains(k) returns true
\* for every key inserted.
C9_DistinctInserts ==
  (NoDeletes /\ DistinctInserts) =>
    \A t \in Threads :
      /\ Returning(t, "insert") => loc[t].rv
      /\ (Returning(t, "contains") /\ phase = "post" /\ kh[key[t]].insOK = 1)
           => loc[t].rv

\* C9 witness: two overlapping inserts of distinct keys are both about to
\* return true.
C9_Witness ==
  /\ phase = "par" /\ NoDeletes /\ DistinctInserts /\ key[1] # key[2]
  /\ Returning(1, "insert") /\ Returning(2, "insert")
  /\ loc[1].rv /\ loc[2].rv

RECURSIVE LevelWalk(_, _, _, _)
LevelWalk(nd, l, n, fuel) ==
  IF n = NULL \/ n = tail \/ fuel = 0 THEN <<>>
  ELSE <<n>> \o LevelWalk(nd, l, nd[n].next[l].p, fuel - 1)

WalkFromHead(nd, l) == LevelWalk(nd, l, nd[head].next[l].p, MaxNodes + 2)

\* The keys of the unmarked nodes met at one level of heap nd, in the order met.
UnmarkedKeysOf(nd, l) ==
  LET w == SelectSeq(WalkFromHead(nd, l), LAMBDA n : ~NodeMarked(nd, n))
  IN [i \in 1..Len(w) |-> nd[w[i]].key]

UnmarkedKeysAt(l) == UnmarkedKeysOf(node, l)

StrictlyIncreasing(ks) ==
  \A i \in 1..Len(ks) : \A j \in 1..Len(ks) : i < j => ks[i] < ks[j]

\* C11: when no call is running, the unmarked nodes met by following the next
\* pointers from the head at any level have strictly increasing keys.
C11_SortedAtQuiescence ==
  Quiescent => \A l \in Levels : StrictlyIncreasing(UnmarkedKeysAt(l))

KeysOfSeq(ks) == {ks[i] : i \in 1..Len(ks)}

\* What a reader can see of the heap: the memory of a node that free() was
\* called on is indeterminate, so its key and its mark read as any value (the
\* allocator reuses the first bytes of a freed block); its next pointers are
\* taken as left by the last store.
FreedNodes == {n \in Nodes : node[n].st = "freed"}

ReadableHeaps ==
  {[n \in Nodes |->
      IF n \in FreedNodes
      THEN [node[n] EXCEPT !.key = c[n].key, !.marked = c[n].marked,
                           !.next[0].m = FALSE]
      ELSE node[n]] : c \in [FreedNodes -> [key : Keys, marked : BOOLEAN]]}

\* C12: when no call is running, at every level above 0 the keys of the
\* unmarked nodes reachable from the head are among the keys of the unmarked
\* nodes reachable one level below.
C12_LevelsNested ==
  Quiescent =>
    \A nd \in ReadableHeaps : \A l \in Levels \ {0} :
      KeysOfSeq(UnmarkedKeysOf(nd, l)) \subseteq KeysOfSeq(UnmarkedKeysOf(nd, l - 1))

\* Following next[l] from node n leads to the tail without reading NULL.
RECURSIVE EndsAtTail(_, _, _, _)
EndsAtTail(nd, l, n, fuel) ==
  IF n = tail THEN TRUE
  ELSE IF n = NULL \/ fuel = 0 THEN FALSE
  ELSE EndsAtTail(nd, l, nd[n].next[l].p, fuel - 1)

\* C14: in every state from create on, at every level from 0 to MAX_LEVEL the
\* chain of next pointers from the head reaches the tail without meeting NULL.
C14_ChainsReachTail ==
  \A l \in Levels : EndsAtTail(node, l, head, MaxNodes + 2)

\* C13: for calls with any int key, INT_MIN and INT_MAX included, the head and
\* the tail are never marked, never unlinked and never freed, and
\* delete(INT_MAX) returns false and leaves the tail's next pointers unmarked.
C13_SentinelsIntact ==
  /\ \A s \in {head, tail} :
       /\ node[s].st = "alloc"
       /\ ~node[s].marked
       /\ \A l \in Levels : ~node[s].next[l].m
  /\ EndsAtTail(node, 0, head, MaxNodes + 2)
  /\ \A t \in Threads :
       (Returning(t, "delete") /\ key[t] = INT_MAX) => ~loc[t].rv

(* ===================== memory reclamation (fine) ====================== *)

\* The nodes the next step of thread t of the fine variant reads, locks,
\* writes or frees, when that step is enabled.
FineTouches(t) ==
  LET l == loc[t]
      p == pc[t]
  IN IF p \in {"fi_walk", "fd_walk", "fc_walk", "fi_rewalk", "fd_rewalk"}
     THEN {l.pred} \cup ({node[l.pred].next[l.lvl].p} \ {NULL})
     ELSE IF p \in {"fi_exit", "fd_exit"} THEN {l.succs[0]}
     ELSE IF p = "fi_lock0"
     THEN IF node[l.preds[0]].lock = 0 THEN {l.preds[0]} ELSE {}
     ELSE IF p = "fi_link0" THEN {l.preds[0]}
     ELSE IF p = "fi_val0"
     THEN {l.preds[0]} \cup (IF node[l.preds[0]].marked THEN {} ELSE {l.succs[0]})
     ELSE IF p \in {"fi_lockU", "fd_lockP"}
     THEN IF node[l.preds[l.i]].lock = 0 THEN {l.preds[l.i]} ELSE {}
     ELSE IF p \in {"fi_linkU", "fd_valP", "fd_st"} THEN {l.preds[l.i]}
     ELSE IF p = "fi_valU"
     THEN {l.preds[l.i]} \cup (IF node[l.preds[l.i]].marked THEN {} ELSE {l.succs[l.i]})
     ELSE IF p = "fi_setU" THEN {l.newNode}
     ELSE IF p = "fd_lockV"
     THEN IF node[l.victim].lock = 0 THEN {l.victim} ELSE {}
     ELSE IF p \in {"fd_mark", "fd_ld"} THEN {l.victim}
     ELSE IF p = "fc_mark" THEN {l.curr}
     ELSE IF p = "gc_free" THEN {l.glist[j] : j \in 1..Len(l.glist)}
     ELSE {}

\* C15: in the fine variant no thread reads, locks or writes a node after
\* try_gc has freed it, and no node is freed twice.
C15_NoUseAfterFree ==
  impl = "fine" =>
    \A t \in Threads : \A n \in FineTouches(t) : node[n].st # "freed"

\* C16: destroy, called when no call is running, releases every node that was
\* allocated and not yet freed exactly once: none is left allocated and none
\* is freed twice.
C16_DestroyFreesOnce ==
  phase = "done" => \A n \in Nodes : node[n].st \in {"unalloc", "freed"}

(* ============================== progress ============================== *)

\* C17: in the lockfree variant an insert or delete that runs alone always
\* returns: a call of the main thread after the parallel region, when no other
\* thread takes steps, comes back.
C17_SoloCallReturns ==
  (phase = "post" /\ pc[1] # "idle" /\ op[1] \in {"insert", "delete"})
    ~> (pc[1] = "idle")

\* C18: in the fine variant, under weak fairness, every insert and every
\* delete that was called eventually returns.  Stated for the calls the main
\* thread makes after the parallel region, where no other thread can hold or
\* take a lock, so that no waiting for a lock is involved.
C18_FineCallsReturn ==
  (phase = "post" /\ pc[1] \notin {"idle", "crash"}
     /\ op[1] \in {"insert", "delete"}) ~> (pc[1] \in {"idle", "crash"})

(* ============================ coarse mutex ============================ *)

\* C19: in the coarse variant the steps that read or write next pointers (the
\* search, the link loop, the unlink loop) run only while their thread holds
\* the global mutex, so at most one thread is in them; a thread outside them
\* does not hold the mutex (it was released on every return path); and the
\* mutex is free whenever no call is running.
C19_MutexDiscipline ==
  impl = "coarse" =>
    /\ \A t \in Threads :
         pc[t] \in {"co_search", "co_link", "co_unlink"} <=> glock = t
    /\ Quiescent => glock = 0

\* C19 witness: in the parallel region one thread is in the link loop holding
\* the mutex while the other waits in omp_set_lock.
C19_Witness ==
  /\ impl = "coarse" /\ phase = "par"
  /\ pc[1] = "co_link" /\ glock = 1
  /\ pc[2] = "co_lock"

\* The nodes thread t of the coarse variant holds a pointer to that it can
\* still use: preds[] and victim between the search and the unlock, the
\* victim alone between the unlock and free (preds[] is not read again).
CoarseHeld(t) ==
  IF pc[t] \in {"co_link", "co_unlink"}
  THEN ({loc[t].preds[l] : l \in Levels} \cup {loc[t].victim}) \ {NULL}
  ELSE IF pc[t] = "co_free" THEN {loc[t].victim}
  ELSE {}

\* The nodes the next step of thread t of the coarse variant dereferences:
\* the search walks what is reachable from the head; the link loop writes
\* the predecessors; the unlink loop reads the victim and writes the
\* predecessors of its levels.
CoarseTouches(t) ==
  IF pc[t] = "co_search"
  THEN {head} \cup UNION {Reach(node, l) : l \in Levels}
  ELSE IF pc[t] = "co_link" THEN {loc[t].preds[l] : l \in Levels}
  ELSE IF pc[t] = "co_unlink"
  THEN {loc[t].victim} \cup
       {loc[t].preds[l] : l \in 0..node[loc[t].victim].top}
  ELSE {}

\* C20: in the coarse variant, when delete is about to free its victim (after
\* the unlock), the victim is reachable from the head at no level and no
\* other thread holds a pointer to it that it can still use; and no thread
\* dereferences a node that has been freed.
C20_CoarseFreeSafe ==
  impl = "coarse" =>
    \A t \in Threads :
      /\ pc[t] = "co_free" =>
           /\ \A l \in Levels : loc[t].victim \notin Reach(node, l)
           /\ \A u \in Threads \ {t} : loc[t].victim \notin CoarseHeld(u)
      /\ \A n \in CoarseTouches(t) : node[n].st = "alloc"

\* C20 witness: in the parallel region a delete is about to free a victim
\* that had two levels, while the other thread, holding the mutex, is in its
\* link loop with the predecessors it found.
C20_Witness ==
  /\ impl = "coarse" /\ phase = "par"
  /\ pc[1] = "co_free" /\ node[loc[1].victim].top = 1
  /\ pc[2] = "co_link" /\ CoarseHeld(2) # {}


(* ------------------------------- C21 ---------------------------------- *)
\* The fine delete that has finished its unlink loop, up to the push of the
\* victim on a limbo list.
FineUnlinked(t) == pc[t] \in {"fd_size", "rt_epoch", "rt_push"}

\* C21: in the fine variant every unlink store of delete (line 270) is made
\* through a predecessor that is unmarked and still points to the victim, and
\* once the unlink loop is over (the delete is going to return true and hands
\* the victim to retire_node) the victim is reachable from head at no level.
C21_DeleteUnlinksVictim ==
  impl = "fine" =>
    \A t \in Threads :
      /\ pc[t] \in {"fd_ld", "fd_st"} =>
           /\ ~node[loc[t].preds[loc[t].i]].marked
           /\ node[loc[t].preds[loc[t].i]].next[loc[t].i].p = loc[t].victim
      /\ FineUnlinked(t) =>
           \A l \in Levels : loc[t].victim \notin Reach(node, l)


(* ------------------------------- C22 ---------------------------------- *)
\* An insert is still building the tower of node n (lines 166-191).
TowerBuilding(n) ==
  \E u \in Threads : Active(u) /\ op[u] = "insert" /\ loc[u].newNode = n

\* C22: in the lockfree variant a delete that is about to return true (its
\* unlinking find of line 236 is over), with no insert still building the
\* victim's tower, leaves the victim reachable from head at no level; and at
\* quiescence every node that is linked from head at a level L > 0 with its
\* next[L] unmarked is also reachable from head at level L - 1.
C22_LockfreeUnlinked ==
  impl = "lockfree" /\ phase # "done" =>
    /\ \A t \in Threads :
         pc[t] = "d_size" /\ ~TowerBuilding(loc[t].victim) =>
           \A l \in Levels : loc[t].victim \notin Reach(node, l)
    /\ Quiescent =>
         \A l \in 1..MAX_LEVEL :
           \A n \in Reach(node, l) :
             ~IS_MARKED(node[n].next[l]) => n \in Reach(node, l - 1)


(* ------------------------------- C23 ---------------------------------- *)
\* Thread t's step is the successful level-0 link of an insert
\* (skiplist_fine.c:182, skiplist_lockfree.c:157).
LinkStep(t) ==
  \/ pc[t] = "fi_link0" /\ pc'[t] = "fi_size"
  \/ pc[t] = "i_cas0" /\ pc'[t] = "i_size"

\* Thread t's step is the mark step of a delete (skiplist_fine.c:246; the
\* successful level-0 CAS of skiplist_lockfree.c:227).
MarkStep(t) ==
  \/ pc[t] = "fd_mark" /\ pc'[t] = "fd_lockP"
  \/ pc[t] = "d_cas" /\ loc[t].i = 0 /\ pc'[t] = "f_first" /\ loc'[t].cont = "d_size"



\* The abstract set as it can be read from memory: one set per readable heap
\* (one set only, unless a freed node is reachable from head at level 0).
AbstractSets == {LiveKeysOf(nd) : nd \in ReadableHeaps}

\* The steps C23 allows from abstract set s to abstract set s2.
AbstractSetStep(s, s2) ==
  \/ s2 = s
  \/ \E t \in Threads : LinkStep(t) /\ key[t] \notin s /\ s2 = s \cup {key[t]}
  \/ \E t \in Threads : MarkStep(t) /\ key[t] \in s /\ s2 = s \ {key[t]}

\* C23: in the fine and the lockfree variant the abstract set (the keys of the
\* unmarked nodes reachable from head at level 0) changes only at the
\* linearization points: the level-0 link of an insert adds exactly its key,
\* the mark step of a delete removes exactly its key, and every other step
\* before destroy leaves the abstract set as it was.
C23_AbstractSetSteps ==
  [][(impl \in {"fine", "lockfree"} /\ phase' # "done") =>
       \A s \in AbstractSets : \A s2 \in AbstractSets' : AbstractSetStep(s, s2)]_vars


(* ------------------------------- C24 ---------------------------------- *)
\* C24: in the fine variant contains(k) answers true iff the node its walk
\* stopped at on level 0 has key k, has fully_linked set and is not marked; a
\* node linked at level 0 whose fully_linked is still false is not reported.
\* Stated where line 300 is evaluated, on the node curr it is evaluated on.
C24_ContainsFullyLinked ==
  impl = "fine" =>
    \A t \in Threads :
      pc[t] = "fc_mark" =>
        (ContainsFound(node, loc[t].curr, key[t])
           <=> /\ node[loc[t].curr].key = key[t]
               /\ node[loc[t].curr].full
               /\ ~node[loc[t].curr].marked)


(* ------------------------------- C25 ---------------------------------- *)
\* Thread t, holding the lock of its victim (lines 239-247), takes its step
\* on a victim whose fully_linked flag is false.
DeleteOfUnlinkedStep(t) ==
  /\ pc[t] = "fd_mark"
  /\ pc'[t] # "fd_mark"
  /\ ~node[loc[t].victim].full

\* C25: a fine delete whose victim has fully_linked false releases the
\* victim's lock and returns false, and neither marks nor unlinks the victim.
C25_DeleteSkipsUnlinked ==
  [][\A t \in Threads :
       (impl = "fine" /\ DeleteOfUnlinkedStep(t)) =>
         /\ pc'[t] = "ret" /\ ~loc'[t].rv
         /\ node'[loc[t].victim] = [node[loc[t].victim] EXCEPT !.lock = 0]]_vars


(* ------------------------------- C26 ---------------------------------- *)
\* The node locks thread t holds.
LocksHeld(t) == {n \in Nodes : node[n].lock = t}

\* Thread t is about to allocate its node (lines 173-174), or is inside a
\* per-level search from head (insert lines 197-207, delete lines 260-265).
AllocOrRefind(t) ==
  \/ pc[t] \in {"fi_alloc", "fi_rewalk", "fi_reexit", "fd_rewalk", "fd_reexit"}
  \/ pc[t] \in {"ee_load", "ee_inc"} /\ loc[t].cont \in {"fi_rewalk", "fd_rewalk"}

\* C26: in the fine variant a thread that allocates a node, or that searches
\* one level again from head, holds no node lock.
C26_NoLockAcrossAlloc ==
  impl = "fine" => \A t \in Threads : AllocOrRefind(t) => LocksHeld(t) = {}


(* ------------------------------- C27 ---------------------------------- *)
\* Thread t is about to store its new node into preds[L]->next[L]
\* (line 182 for level 0, line 213 for the upper levels).
InsertStoring(t) == pc[t] \in {"fi_link0", "fi_linkU"}
StoreLevel(t) == IF pc[t] = "fi_link0" THEN 0 ELSE loc[t].i

\* C27 as stated: at the instant of every such store the thread holds
\* preds[L]->lock, preds[L] and succs[L] are unmarked, preds[L]->next[L] is
\* succs[L] and newNode->next[L] is succs[L].
C27_AsStated ==
  impl = "fine" =>
    \A t \in Threads :
      InsertStoring(t) =>
        LET L == StoreLevel(t)
            p == loc[t].preds[L]
            s == loc[t].succs[L]
        IN /\ node[p].lock = t
           /\ ~node[p].marked
           /\ ~node[s].marked
           /\ node[p].next[L].p = s
           /\ node[loc[t].newNode].next[L].p = s

\* C27, amended: at the instant of every store of the new node into
\* preds[L]->next[L] the fine insert holds preds[L]->lock, preds[L] is
\* unmarked, preds[L]->next[L] is succs[L] and newNode->next[L] is succs[L],
\* so the store drops no node linked after preds[L]; succs[L] was unmarked
\* when validate_link read it, and may have been marked since.
C27_InsertStoreValidated ==
  impl = "fine" =>
    \A t \in Threads :
      InsertStoring(t) =>
        LET L == StoreLevel(t)
            p == loc[t].preds[L]
            s == loc[t].succs[L]
        IN /\ node[p].lock = t
           /\ ~node[p].marked
           /\ node[p].next[L].p = s
           /\ node[loc[t].newNode].next[L].p = s

\* An insert is about to store at an upper level behind an ordinary node while
\* another thread's delete is running.
C27_Witness ==
  /\ impl = "fine"
  /\ \E t \in Threads :
       /\ pc[t] = "fi_linkU"
       /\ loc[t].preds[loc[t].i] # head
       /\ \E u \in Threads \ {t} : Active(u) /\ op[u] = "delete"


(* ------------------------------- C28 ---------------------------------- *)
\* The nodes thread t's try_gc is about to free (lines 80-86).
Freeing(t) ==
  IF pc[t] = "gc_free" THEN {loc[t].glist[j] : j \in 1..Len(loc[t].glist)} ELSE {}

\* C28: a node retired while the global epoch was E is freed by try_gc only
\* when the global epoch is at least E + 2, when the epoch advance of that
\* try_gc came after the retirement (it advanced from an epoch not below E),
\* and when no thread is inside an epoch section it entered in epoch E or
\* earlier.
C28_GracePeriod ==
  impl = "fine" =>
    \A t \in Threads : \A n \in Freeing(t) :
      /\ epoch >= eh.ret[n] + 2
      /\ loc[t].cg >= eh.ret[n]
      /\ \A u \in Threads : eh.ent[u] # -1 => eh.ent[u] > eh.ret[n]


(* ------------------------------- C29 ---------------------------------- *)
\* Steps of find: it stores the path of a level (lines 96-98), it returns
\* (line 102), it has read a new curr (lines 57, 80, 90).
FindStoresLevel(t) == pc[t] = "f_curr" /\ pc'[t] \in {"f_first", loc[t].cont}
FindReturns(t) == pc[t] = "f_curr" /\ pc'[t] = loc[t].cont
FindReadsCurr(t) ==
  /\ pc[t] \in {"f_first", "f_curr", "f_cas"} /\ pc'[t] = "f_curr"
  /\ <<pc[t], loc[t]>> # <<pc'[t], loc'[t]>>

\* preds[L].key < k <= succs[L].key, head and tail counting as minus and plus
\* infinity.
Brackets(nd, p, s, k) ==
  /\ p # NULL /\ (p = head \/ nd[p].key < k)
  /\ s # NULL /\ (s = tail \/ k <= nd[s].key)

\* What C29 says of a step of thread t inside find.
FindStepOk(t) ==
  /\ FindReadsCurr(t) =>
       loc'[t].curr = GET_UNMARKED(node'[loc'[t].pred].next[loc'[t].lvl])
  /\ FindStoresLevel(t) =>
       LET L == loc[t].lvl
       IN /\ loc'[t].preds[L] = loc[t].pred
          /\ loc'[t].succs[L] = loc[t].curr
          /\ loc[t].curr # NULL
          /\ ~IS_MARKED(node[loc[t].curr].next[L])
          /\ Brackets(node, loc[t].pred, loc[t].curr, key[t])
  /\ FindReturns(t) =>
       /\ \A L \in 0..(MAX_LEVEL - 1) :
            Brackets(node', loc'[t].preds[L], loc'[t].succs[L], key[t])
       /\ loc'[t].fres <=> /\ loc'[t].succs[0] # tail
                           /\ node'[loc'[t].succs[0]].key = key[t]

\* C29: lockfree find(key), for a key strictly between INT_MIN and INT_MAX:
\* every curr is read as the unmarked pointer of pred->next[level]; the
\* succs[L] it stores had its own next[L] unmarked when that was read, with
\* preds[L].key < key <= succs[L].key; and when it returns this holds at every
\* traversed level and the result is true iff succs[0] is not tail and
\* succs[0].key == key.
C29_FindPostcondition ==
  [][\A t \in Threads : (impl = "lockfree" /\ key[t] \in Keys) => FindStepOk(t)]_vars

\* An insert's find, run again after a failed upper-level CAS, has returned
\* with an ordinary node as preds[0].
C29_Witness ==
  /\ impl = "lockfree"
  /\ \E t \in Threads : pc[t] = "i_chk" /\ loc[t].preds[0] \notin {NULL, head}


(* ------------------------------- C30 ---------------------------------- *)
\* The node pointers thread u has in its locals.
PointersOf(u) ==
  {loc[u].pred, loc[u].curr, loc[u].succ.p, loc[u].newNode, loc[u].victim}
    \cup {loc[u].preds[l] : l \in Levels} \cup {loc[u].succs[l] : l \in Levels}

\* No allocated node and no thread other than t points to node n.
Unshared(n, t) ==
  /\ \A m \in Nodes \ {n} : node[m].st = "alloc" =>
       \A l \in Levels : node[m].next[l].p # n
  /\ \A u \in Threads \ {t} : n \notin PointersOf(u)

\* No allocated node and no thread points to a freed node.
NoDangling ==
  \A n \in Nodes : node[n].st = "freed" => Unshared(n, 0)

\* The step frees node n: it is the free of line 159, by the insert that
\* allocated n and whose publishing CAS failed, and nothing else points to n.
FreeIsOwn(n) ==
  \E t \in Threads :
    /\ pc[t] = "i_cas0" /\ pc'[t] = "f_first"
    /\ loc[t].newNode = n
    /\ Unshared(n, t)

\* C30: in the lockfree variant, before destroy, a node is only ever freed by
\* the insert that allocated it, after its level-0 publishing CAS failed, when
\* no other thread and no node points to it; so at no time does a node or a
\* thread hold a pointer to freed memory.
C30_LockfreeFreesOwnOnly ==
  [][(impl = "lockfree" /\ phase' # "done") =>
       /\ \A n \in Nodes :
            (node[n].st = "alloc" /\ node'[n].st # "alloc") => FreeIsOwn(n)
       /\ NoDangling']_vars

\* A lockfree insert has freed its node while a node that a delete returned
\* true for is still allocated.
C30_Witness ==
  /\ impl = "lockfree" /\ phase # "done"
  /\ \E n \in Nodes : node[n].st = "freed"
  /\ \E m \in Nodes : delCnt[m] = 1 /\ node[m].st = "alloc"


(* ------------------------------- C31 ---------------------------------- *)
\* The step is taken by thread t inside a contains call, its invocation and
\* its return included.
ContainsStep(t) ==
  /\ <<pc[t], loc[t]>> # <<pc'[t], loc'[t]>>
  /\ \/ pc[t] # "idle" /\ op[t] = "contains"
     \/ pc[t] = "idle" /\ op'[t] = "contains"

\* C31: in the fine and the lockfree variant no step of a contains call
\* changes the node graph or the size counter: every node's next words, marks
\* and allocation state, and list->size, are the same after the step.
C31_ContainsReadOnly ==
  [][\A t \in Threads :
       (impl \in {"fine", "lockfree"} /\ ContainsStep(t)) =>
         node' = node /\ size' = size]_vars

\* A lockfree contains stands on a marked node that is still linked from its
\* pred, and leaves it linked.
C31_Witness ==
  /\ impl = "lockfree"
  /\ \E t \in Threads :
       /\ op[t] = "contains" /\ pc[t] = "c_curr"
       /\ loc[t].curr \notin {NULL, tail}
       /\ IS_MARKED(node[loc[t].curr].next[loc[t].lvl])
       /\ node[loc[t].pred].next[loc[t].lvl].p = loc[t].curr

(* ------------------------------- C32 ---------------------------------- *)
\* A parallel region on an empty lockfree list in which thread 2 makes
\* TowerOps calls while thread 1 makes ParOps.
TowerOps == 2
TowerBudget == [t \in Threads |-> IF t = 2 THEN TowerOps ELSE ParOps]
InitTower == InitWith({"lockfree"}, 0, TowerBudget)
NextTower == (\E t \in Threads : Invoke(t) \/ Return(t) \/ NextLF(t)) \/ Fork
SpecTower == InitTower /\ [][NextTower]_vars

\* The next[L] word of node n carries the mark and n stays allocated.
MarkedWord(n, L) ==
  /\ node[n].st = "alloc" /\ node'[n].st = "alloc"
  /\ L <= node[n].top
  /\ IS_MARKED(node[n].next[L])

\* C32: in the lockfree variant a next[L] word that carries the mark bit never
\* changes again: no step clears the mark or replaces the successor stored
\* with it.
C32_MarkedWordFrozen ==
  [][impl = "lockfree" =>
       \A n \in Nodes : \A L \in Levels :
         MarkedWord(n, L) => node'[n].next[L] = node[n].next[L]]_vars


(* ------------------------------- C33 ---------------------------------- *)
\* C33: in every variant the size counter is never negative, also while an
\* insert has published its node at level 0 and not yet added one to size and
\* a concurrent delete of that node runs to completion.
C33_SizeNonNegative == size >= 0


(* ------------------------------- C34 ---------------------------------- *)
\* Thread t is outside every locked section: between calls, at a return, or
\* at the epoch_enter that starts a call, a retry (line 169) or a search of
\* one level (lines 197, 260).
OutsideLocks(t) == pc[t] \in {"idle", "ret", "ee_load"}

\* C34: in the fine variant a thread holds at most one node lock at a time,
\* and none when its operation returns or retries.
C34_AtMostOneLock ==
  impl = "fine" =>
    \A t \in Threads :
      /\ Cardinality(LocksHeld(t)) <= 1
      /\ OutsideLocks(t) => LocksHeld(t) = {}

\* A delete below the top level of its victim: it holds the lock of preds[i]
\* only, having released the victim's lock and the lock of preds[i + 1].
C34_Witness ==
  /\ impl = "fine"
  /\ \E t \in Threads :
       /\ op[t] = "delete" /\ pc[t] = "fd_valP"
       /\ loc[t].i < node[loc[t].victim].top
       /\ loc[t].preds[loc[t].i] # loc[t].preds[loc[t].i + 1]
       /\ LocksHeld(t) = {loc[t].preds[loc[t].i]}

=============================================================================
